---- MODULE Spec2Model ----
(***************************************************************************)
(* Forseti iRacing bridge (forseti-iracing-bridge/main.py): the connection *)
(* guard, the two read-through caches and the five request handlers.       *)
(*                                                                         *)
(* The SDK handle `ir` is an opaque capability.  Its state is the pair     *)
(* is_initialized / is_connected; the simulation being up or down, the     *)
(* set of variables it reports as None and its session YAML are the        *)
(* environment.  startup(), shutdown(), freeze_var_buffer_latest() and     *)
(* ir[key] may each raise; which call raises is an input of the request.   *)
(*                                                                         *)
(* Python's None is the empty tuple, a present value v is <<v>>.  A dict   *)
(* is a function on strings; the empty dict has the empty domain.          *)
(*                                                                         *)
(* Spec, SpecNull and SpecLap run a request in one step, in which no tick  *)
(* of the simulation falls: they leave frozen and req alone.  SpecTick and *)
(* SpecConc run get_telemetry and get_session statement by statement on    *)
(* worker threads, with the simulation ticking in between.                 *)
(***************************************************************************)
EXTENDS Integers, Sequences, FiniteSets, TLC

\* ---------------------------------------------------------------- bounds
\* time.time() is read from clock, which the environment advances up to here
MaxClock == 1
\* the source call that raises in a read is one of the first MaxFailAt or the last
MaxFailAt == 1
\* the fastest-lap results of a session YAML number at most MaxLaps
MaxLaps == 4
\* requests the server's thread pool runs at the same time
NumWorkers == 2

VARIABLES
  is_initialized,        \* ir.is_initialized
  is_connected,          \* ir.is_connected
  simUp,                 \* environment: the simulation is running
  absent,                \* environment: variables the source reports as None
  info,                  \* environment: the session YAML (WeekendInfo, DriverInfo, SessionInfo)
  clock,                 \* environment: what time.time() returns
  telemetry_cache,       \* main.py:68
  session_cache,         \* main.py:69
  last_telemetry_update, \* main.py:67
  resp,                  \* the last request and its response, with the source calls it made
  goodTelemetry,         \* history: body of the last GET /telemetry whose live read succeeded
  goodSession,           \* history: body of the last GET /session whose live read succeeded
  frozen,                \* the tick of the buffer ir.freeze_var_buffer_latest() froze
  req                    \* per worker thread: the request it runs statement by statement

vars == <<is_initialized, is_connected, simUp, absent, info, clock, telemetry_cache,
          session_cache, last_telemetry_update, resp, goodTelemetry, goodSession,
          frozen, req>>

\* ------------------------------------------------------------ Python values
None == <<>>
Some(v) == <<v>>
EmptyDict == [k \in {} |-> 0]
\* truth value of a dict or of None-or-dict (`if telemetry_cache:`, `not session_info`)
Truthy(d) == DOMAIN d # {}
\* dict.get(key, default)
DictGet(d, k, default) == IF k \in DOMAIN d THEN d[k] ELSE default

\* ---------------------------------------------------------------- source
\* keys of the var buffer that get_telemetry reads, in the order it reads them
TelemetryVars ==
  <<"Speed", "RPM", "Gear", "Throttle", "Brake", "SteeringWheelAngle",
    "LapCurrentLapTime", "LapLastLapTime", "Lap", "SessionTime",
    "SessionTimeRemain", "IsOnTrack", "LapDistPct", "TrackLength">>

\* snapshot key and default of each telemetry variable (lines 197-210)
TelemetryKey ==
  [Speed |-> "speed", RPM |-> "rpm", Gear |-> "gear", Throttle |-> "throttle",
   Brake |-> "brake", SteeringWheelAngle |-> "steering",
   LapCurrentLapTime |-> "lapCurrentLapTime", LapLastLapTime |-> "lapLastLapTime",
   Lap |-> "lapNumber", SessionTime |-> "sessionTime",
   SessionTimeRemain |-> "sessionTimeRemain", IsOnTrack |-> "isOnTrack",
   LapDistPct |-> "lapDistPct", TrackLength |-> "trackLength"]
TelemetryDefault(key) == IF key = "IsOnTrack" THEN FALSE ELSE 0

TelemetryVarSet == {TelemetryVars[i] : i \in 1..Len(TelemetryVars)}
\* keys of the var buffer that get_session reads
SessionVarSet == {"TrackLength", "TrackTempCrew", "AirTemp", "TrackWetness"}
SourceVarSet == TelemetryVarSet \cup SessionVarSet

\* ir[key] for a var-buffer key at simulation time t: None when the source
\* reports it absent, else a value that moves with the simulation
SourceVar(key, gone, t) ==
  IF key \in gone THEN None
  ELSE IF key = "IsOnTrack" THEN Some(TRUE)
  ELSE Some(t + 1)

\* ir.startup(): raises, or leaves the handle initialized and connected
\* when the simulation is up and not connected when it is down
startup(s, sim, raises) ==
  IF raises
    THEN [s EXCEPT !.raised = TRUE, !.startups = @ + 1]
    ELSE [s EXCEPT !.init = IF sim THEN TRUE ELSE @, !.conn = sim, !.startups = @ + 1]

\* ------------------------------------------------------ connection guard
\* ensure_connection(): r1, r2 say whether the first and the second
\* ir.startup() of this call raise.  The result carries the handle's state
\* after the call, whether an exception left the function, the value
\* returned when none did, and the calls made.
\* mutant of ensure_connection: the re-attempt of line 100 is a loop that runs
\* once more while the source is not connected
ensure_connection_retry_loop(init, conn, sim, r1, r2) ==
  LET s0 == [init |-> init, conn |-> conn, raised |-> FALSE, result |-> FALSE,
             startups |-> 0, slept |-> FALSE]
      s1 == IF ~s0.init THEN startup(s0, sim, r1) ELSE s0
      s2 == IF s1.raised THEN s1
            ELSE IF ~s1.conn
              THEN LET s == startup(s1, sim, r2)
                   IN  IF s.raised THEN s ELSE [s EXCEPT !.slept = TRUE]
              ELSE s1
      s3 == IF s2.raised \/ s2.conn THEN s2 ELSE startup(s2, sim, r2)
  IN  IF s3.raised THEN s3 ELSE [s3 EXCEPT !.result = s3.conn]

ensure_connection(init, conn, sim, r1, r2) ==
  LET s0 == [init |-> init, conn |-> conn, raised |-> FALSE, result |-> FALSE,
             startups |-> 0, slept |-> FALSE]
      s1 == IF ~s0.init THEN startup(s0, sim, r1) ELSE s0
      s2 == IF s1.raised THEN s1
            ELSE IF ~s1.conn
              THEN LET s == startup(s1, sim, r2)
                   IN  IF s.raised THEN s ELSE [s EXCEPT !.slept = TRUE]
              ELSE s1
  IN  IF s2.raised THEN s2 ELSE [s2 EXCEPT !.result = s2.conn]

\* which ir.startup() of a call raises: none (0), the first or the second,
\* among those the call can make
RaisePoints(init, conn) ==
  IF ~init THEN 0..2 ELSE IF ~conn THEN {0, 2} ELSE {0}

\* -------------------------------------------------------------- responses
\* the calls a request makes on the source.  source: its freeze and keyed
\* reads, in the order made; failed: the call that raised, "startup",
\* "shutdown", "source" (a freeze or a keyed read) or "lookup" (the driver
\* lookup in the session YAML), or "none"
NoCalls == [startups |-> 0, slept |-> FALSE, source |-> <<>>, shutdowns |-> 0,
            failed |-> "none"]

\* op: the endpoint; guard: "none", "true", "false" or "raised";
\* read: "none", "ok", "unavailable" or "error" (how the live read ended)
Response(op, status, body, guard, read, calls) ==
  [op |-> op, status |-> status, body |-> body, guard |-> guard, read |-> read,
   calls |-> calls]

\* the worker threads, and one that runs no request.  pc: the statement the
\* request is at; meta, track_length_m, local: the handler's locals
\* session_info/driver_info/session_results, track_length_m and
\* telemetry/session_data; status, out: the response once returned
Workers == 1..NumWorkers
NoRequest == [pc |-> "idle", op |-> "none", status |-> 0, meta |-> None,
              track_length_m |-> None, local |-> EmptyDict, out |-> EmptyDict]

GuardCalls(g) ==
  [NoCalls EXCEPT !.startups = g.startups, !.slept = g.slept,
                  !.failed = IF g.raised THEN "startup" ELSE "none"]
GuardOutcome(g) == IF g.raised THEN "raised" ELSE IF g.result THEN "true" ELSE "false"

\* what the server answers when a handler lets an exception escape
Unhandled == [detail |-> "Internal Server Error"]

\* ------------------------------------------------------------------ GET /
root ==
  /\ resp' = Response("root", 200,
                      [service |-> "Forseti iRacing Bridge", version |-> "1.0.0",
                       status |-> "running"],
                      "none", "none", NoCalls)
  /\ UNCHANGED <<is_initialized, is_connected, simUp, absent, info, clock,
                 telemetry_cache, session_cache, last_telemetry_update,
                 goodTelemetry, goodSession, frozen, req>>

\* ------------------------------------------------------------ GET /status
\* mutant of status_result: the guard's exception is not caught
status_result_no_catch(g, now) ==
  IF g.raised
    THEN [status |-> 500, body |-> Unhandled]
    ELSE [status |-> 200,
          body |-> [connected |-> g.result, initialized |-> g.init, timestamp |-> now]]

\* lines 140-153: the try block's payload, or the except block's
status_result(g, now) ==
  IF g.raised
    THEN [status |-> 200,
          body |-> [connected |-> FALSE, initialized |-> FALSE,
                    error |-> "startup failed", timestamp |-> now]]
    ELSE [status |-> 200,
          body |-> [connected |-> g.result, initialized |-> g.init, timestamp |-> now]]

get_status ==
  \E raiseAt \in RaisePoints(is_initialized, is_connected) :
    LET g == ensure_connection(is_initialized, is_connected, simUp, raiseAt = 1, raiseAt = 2)
        out == status_result(g, clock)
    IN  /\ is_initialized' = g.init
        /\ is_connected' = g.conn
        /\ resp' = Response("status", out.status, out.body, GuardOutcome(g), "none",
                            GuardCalls(g))
        /\ UNCHANGED <<simUp, absent, info, clock, telemetry_cache, session_cache,
                       last_telemetry_update, goodTelemetry, goodSession, frozen, req>>

\* ------------------------------------------------------- POST /disconnect
\* ir.shutdown(): raises and leaves the handle as it is, or closes it
shutdown(init, conn, raises) ==
  IF raises THEN [init |-> init, conn |-> conn, raised |-> TRUE]
            ELSE [init |-> FALSE, conn |-> FALSE, raised |-> FALSE]

\* mutant of disconnect_result: shutdown is requested only of an initialized
\* handle
disconnect_result_if_initialized(init, conn, raises) ==
  IF ~init
    THEN [init |-> init, conn |-> conn, shutdowns |-> 0, failed |-> "none",
          status |-> 200, body |-> [status |-> "disconnected"]]
    ELSE [init |-> IF raises THEN init ELSE FALSE,
          conn |-> IF raises THEN conn ELSE FALSE,
          shutdowns |-> 1,
          failed |-> IF raises THEN "shutdown" ELSE "none",
          status |-> IF raises THEN 500 ELSE 200,
          body |-> IF raises THEN [detail |-> "Error disconnecting"]
                             ELSE [status |-> "disconnected"]]

\* lines 320-324
disconnect_result(init, conn, raises) ==
  LET s == shutdown(init, conn, raises)
  IN  [init |-> s.init, conn |-> s.conn, shutdowns |-> 1,
       failed |-> IF s.raised THEN "shutdown" ELSE "none",
       status |-> IF s.raised THEN 500 ELSE 200,
       body |-> IF s.raised THEN [detail |-> "Error disconnecting"]
                            ELSE [status |-> "disconnected"]]

\* mutant of disconnect: the handler also resets both caches to {}
disconnect_clearing_caches ==
  \E raises \in BOOLEAN :
    LET out == disconnect_result(is_initialized, is_connected, raises)
    IN  /\ is_initialized' = out.init
        /\ is_connected' = out.conn
        /\ resp' = Response("disconnect", out.status, out.body, "none", "none",
                            [NoCalls EXCEPT !.shutdowns = out.shutdowns,
                                            !.failed = out.failed])
        /\ telemetry_cache' = EmptyDict
        /\ session_cache' = EmptyDict
        /\ UNCHANGED <<simUp, absent, info, clock, last_telemetry_update,
                       goodTelemetry, goodSession, frozen, req>>

disconnect ==
  \E raises \in BOOLEAN :
    LET out == disconnect_result(is_initialized, is_connected, raises)
    IN  /\ is_initialized' = out.init
        /\ is_connected' = out.conn
        /\ resp' = Response("disconnect", out.status, out.body, "none", "none",
                            [NoCalls EXCEPT !.shutdowns = out.shutdowns,
                                            !.failed = out.failed])
        /\ UNCHANGED <<simUp, absent, info, clock, telemetry_cache, session_cache,
                       last_telemetry_update, goodTelemetry, goodSession, frozen, req>>

\* --------------------------------------------------------- GET /telemetry
\* the keyed reads of `ir[k] if ir[k] is not None else d`: one when the
\* value is None, two when it is not
VarReads(key, gone) == IF key \in gone THEN <<key>> ELSE <<key, key>>

RECURSIVE ReadsOf(_, _)
ReadsOf(keys, gone) ==
  IF keys = <<>> THEN <<>>
  ELSE VarReads(Head(keys), gone) \o ReadsOf(Tail(keys), gone)

\* which source call of a read raises: none (0), one of the first, or the last
FailPoints(all) == (0..MaxFailAt) \cup {Len(all)}

\* the source calls of a telemetry read that nothing interrupts
TelemetryCalls(gone) == <<"freeze">> \o ReadsOf(TelemetryVars, gone)

\* mutant of Coalesce: the default is forgotten and None passes through
Coalesce_no_default(x, default) == x

\* `x if x is not None else default`
Coalesce(x, default) == IF x # None THEN x ELSE Some(default)

\* `(x * 1000) if x is not None else 0`
KmToMeters(x) == IF x # None THEN Some(x[1] * 1000) ELSE Some(0)

\* the dict of lines 196-212
TelemetrySnapshot(gone, t, now) ==
  [speed             |-> Coalesce(SourceVar("Speed", gone, t), 0),
   rpm               |-> Coalesce(SourceVar("RPM", gone, t), 0),
   gear              |-> Coalesce(SourceVar("Gear", gone, t), 0),
   throttle          |-> Coalesce(SourceVar("Throttle", gone, t), 0),
   brake             |-> Coalesce(SourceVar("Brake", gone, t), 0),
   steering          |-> Coalesce(SourceVar("SteeringWheelAngle", gone, t), 0),
   lapCurrentLapTime |-> Coalesce(SourceVar("LapCurrentLapTime", gone, t), 0),
   lapLastLapTime    |-> Coalesce(SourceVar("LapLastLapTime", gone, t), 0),
   lapNumber         |-> Coalesce(SourceVar("Lap", gone, t), 0),
   sessionTime       |-> Coalesce(SourceVar("SessionTime", gone, t), 0),
   sessionTimeRemain |-> Coalesce(SourceVar("SessionTimeRemain", gone, t), 0),
   isOnTrack         |-> Coalesce(SourceVar("IsOnTrack", gone, t), FALSE),
   lapDistPct        |-> Coalesce(SourceVar("LapDistPct", gone, t), 0),
   trackLength       |-> KmToMeters(SourceVar("TrackLength", gone, t)),
   timestamp         |-> now]

\* the try block of get_telemetry up to the dict: failAt = 0 lets every
\* source call return, failAt = k makes the k-th one raise
read_telemetry(gone, t, now, failAt) ==
  LET all == TelemetryCalls(gone)
  IN  IF failAt = 0 \/ failAt > Len(all)
        THEN [ok |-> TRUE, source |-> all, failed |-> "none",
              snapshot |-> TelemetrySnapshot(gone, t, now)]
        ELSE [ok |-> FALSE, source |-> SubSeq(all, 1, failAt), failed |-> "source",
              snapshot |-> EmptyDict]

\* mutant of telemetry_except: the cache is not consulted
telemetry_except_no_fallback(cache) ==
  [status |-> 500, body |-> [detail |-> "Error reading telemetry"]]

\* mutant of telemetry_except: the cache is served without testing it
telemetry_except_serve_any(cache) == [status |-> 200, body |-> cache]

\* the except block of get_telemetry (lines 219-223)
telemetry_except(cache) ==
  IF Truthy(cache)
    THEN [status |-> 200, body |-> cache]
    ELSE [status |-> 500, body |-> [detail |-> "Error reading telemetry"]]

\* mutant of telemetry_result: the read is made before the guard's answer is
\* looked at
telemetry_result_read_first(g, rd, cache) ==
  IF g.raised
    THEN [status |-> 500, body |-> Unhandled, read |-> "none", source |-> <<>>,
          failed |-> "startup", cache |-> cache]
  ELSE IF ~g.result
    THEN [status |-> 503, body |-> [detail |-> "Not connected to iRacing"],
          read |-> "none", source |-> rd.source, failed |-> "none", cache |-> cache]
  ELSE IF rd.ok
    THEN [status |-> 200, body |-> rd.snapshot, read |-> "ok", source |-> rd.source,
          failed |-> "none", cache |-> rd.snapshot]
  ELSE [status |-> IF Truthy(cache) THEN 200 ELSE 500,
        body |-> IF Truthy(cache) THEN cache ELSE [detail |-> "Error reading telemetry"],
        read |-> "error", source |-> rd.source, failed |-> rd.failed, cache |-> cache]

\* the body of get_telemetry (lines 188-223) on the guard's outcome g and
\* the read's outcome rd: the response, the source calls made and the
\* cache the request leaves
telemetry_result(g, rd, cache) ==
  IF g.raised
    THEN [status |-> 500, body |-> Unhandled, read |-> "none", source |-> <<>>,
          failed |-> "startup", cache |-> cache]
  ELSE IF ~g.result
    THEN [status |-> 503, body |-> [detail |-> "Not connected to iRacing"],
          read |-> "none", source |-> <<>>, failed |-> "none", cache |-> cache]
  ELSE IF rd.ok
    THEN [status |-> 200, body |-> rd.snapshot, read |-> "ok", source |-> rd.source,
          failed |-> "none", cache |-> rd.snapshot]
  ELSE LET ex == telemetry_except(cache)
       IN  [status |-> ex.status, body |-> ex.body, read |-> "error",
            source |-> rd.source, failed |-> rd.failed, cache |-> cache]

get_telemetry ==
  \E raiseAt \in RaisePoints(is_initialized, is_connected), failAt \in FailPoints(TelemetryCalls(absent)) :
    LET g == ensure_connection(is_initialized, is_connected, simUp, raiseAt = 1, raiseAt = 2)
        rd == read_telemetry(absent, clock, clock, failAt)
        out == telemetry_result(g, rd, telemetry_cache)
    IN  /\ is_initialized' = g.init
        /\ is_connected' = g.conn
        /\ telemetry_cache' = out.cache
        /\ last_telemetry_update' = IF out.read = "ok" THEN clock ELSE last_telemetry_update
        /\ goodTelemetry' = IF out.read = "ok" THEN out.body ELSE goodTelemetry
        /\ resp' = Response("telemetry", out.status, out.body, GuardOutcome(g), out.read,
                            [GuardCalls(g) EXCEPT !.source = out.source, !.failed = out.failed])
        /\ UNCHANGED <<simUp, absent, info, clock, session_cache, goodSession, frozen, req>>

\* ----------------------------------------------------------- GET /session
\* mutant of FastestOfResults: `fastest_lap == 0 or` is left out of line 272
RECURSIVE FastestOfResults_no_sentinel(_, _)
FastestOfResults_no_sentinel(fastest, results) ==
  IF results = <<>> THEN fastest
  ELSE LET result == Head(results)
           next == IF "FastestTime" \in DOMAIN result /\ result.FastestTime > 0
                     THEN IF result.FastestTime < fastest
                            THEN result.FastestTime ELSE fastest
                     ELSE fastest
       IN  FastestOfResults_no_sentinel(next, Tail(results))

\* lines 270-273: one pass of the inner loop over a session's ResultsFastestLap
RECURSIVE FastestOfResults(_, _)
FastestOfResults(fastest, results) ==
  IF results = <<>> THEN fastest
  ELSE LET result == Head(results)
           next == IF "FastestTime" \in DOMAIN result /\ result.FastestTime > 0
                     THEN IF fastest = 0 \/ result.FastestTime < fastest
                            THEN result.FastestTime ELSE fastest
                     ELSE fastest
       IN  FastestOfResults(next, Tail(results))

\* lines 268-269: the outer loop over Sessions
RECURSIVE FastestOfSessions(_, _)
FastestOfSessions(fastest, sessions) ==
  IF sessions = <<>> THEN fastest
  ELSE LET session == Head(sessions)
           next == IF "ResultsFastestLap" \in DOMAIN session
                     THEN FastestOfResults(fastest, session.ResultsFastestLap)
                     ELSE fastest
       IN  FastestOfSessions(next, Tail(sessions))

\* lines 265-273; times are in milliseconds
fastest_lap(session_results) ==
  IF Truthy(session_results) /\ "Sessions" \in DOMAIN session_results
    THEN FastestOfSessions(0, session_results.Sessions)
    ELSE 0

\* list[i] of Python: 0-based, negative indexes count from the end
PyIndexOk(list, i) == -Len(list) <= i /\ i < Len(list)
PyIndex(list, i) == IF i >= 0 THEN list[i + 1] ELSE list[Len(list) + i + 1]

\* driver_info["Drivers"][driver_info["DriverCarIdx"]][key] raises nothing
DriverOk(driver_info) ==
  /\ {"Drivers", "DriverCarIdx"} \subseteq DOMAIN driver_info
  /\ PyIndexOk(driver_info.Drivers, driver_info.DriverCarIdx)
  /\ {"UserName", "CarScreenName"} \subseteq
       DOMAIN PyIndex(driver_info.Drivers, driver_info.DriverCarIdx)

\* lines 291-292
TrackCondition(wetness) ==
  LET track_wetness == Coalesce(wetness, 1)
  IN  IF track_wetness[1] >= 3 THEN "wet" ELSE "dry"

\* the source calls of a session read that nothing interrupts and that
\* finds the session metadata
SessionCalls(gone) ==
  <<"WeekendInfo", "DriverInfo", "SessionInfo">> \o VarReads("TrackLength", gone)
    \o <<"freeze">> \o VarReads("TrackTempCrew", gone) \o VarReads("AirTemp", gone)
    \o VarReads("TrackWetness", gone)

\* lines 276-277, on the buffer of tick t
TrackLengthM(gone, t) ==
  LET track_length_km == Coalesce(SourceVar("TrackLength", gone, t), 0)
  IN  Some(track_length_km[1] * 1000)

\* lines 283-306: session_data from the locals read before the freeze and the
\* buffer of tick t read after it
SessionData(inf, track_length_m, gone, t, now) ==
  LET session_info == inf.WeekendInfo
      driver_info == inf.DriverInfo
      driver == PyIndex(driver_info.Drivers, driver_info.DriverCarIdx)
  IN  [trackName        |-> DictGet(session_info, "TrackDisplayName", "Unknown"),
       trackId          |-> DictGet(session_info, "TrackID", 0),
       sessionType      |-> DictGet(session_info, "SessionType", "Unknown"),
       driverName       |-> driver.UserName,
       carName          |-> driver.CarScreenName,
       fastestLap       |-> fastest_lap(inf.SessionInfo),
       trackLength      |-> track_length_m,
       trackTemperature |-> SourceVar("TrackTempCrew", gone, t),
       airTemperature   |-> SourceVar("AirTemp", gone, t),
       trackCondition   |-> TrackCondition(SourceVar("TrackWetness", gone, t)),
       timestamp        |-> now]

\* the session snapshot of a request during which the buffer stays at tick t
SessionSnapshot(inf, gone, t, now) ==
  SessionData(inf, TrackLengthM(gone, t), gone, t, now)

\* the try block of get_session up to the dict.  kind is "ok", "unavailable"
\* (line 259 finds no WeekendInfo or no DriverInfo) or "error" (the failAt-th
\* source call raises, or the driver lookup of lines 298-299 does)
read_session(inf, gone, t, now, failAt) ==
  LET all == SessionCalls(gone)
  IN  IF failAt \in 1..2
        THEN [kind |-> "error", source |-> SubSeq(all, 1, failAt), failed |-> "source",
              snapshot |-> EmptyDict]
      ELSE IF ~Truthy(inf.WeekendInfo) \/ ~Truthy(inf.DriverInfo)
        THEN [kind |-> "unavailable", source |-> SubSeq(all, 1, 2), failed |-> "none",
              snapshot |-> EmptyDict]
      ELSE IF failAt \in 3..Len(all)
        THEN [kind |-> "error", source |-> SubSeq(all, 1, failAt), failed |-> "source",
              snapshot |-> EmptyDict]
      ELSE IF ~DriverOk(inf.DriverInfo)
        THEN [kind |-> "error", source |-> all, failed |-> "lookup",
              snapshot |-> EmptyDict]
      ELSE [kind |-> "ok", source |-> all, failed |-> "none",
            snapshot |-> SessionSnapshot(inf, gone, t, now)]

\* mutant of session_except: the cache is not consulted
session_except_no_fallback(cache) ==
  [status |-> 500, body |-> [detail |-> "Error reading session"]]

\* the except block of get_session (lines 311-314)
session_except(cache) ==
  IF Truthy(cache)
    THEN [status |-> 200, body |-> cache]
    ELSE [status |-> 500, body |-> [detail |-> "Error reading session"]]

\* lines 259-262, inside the try block: the cached session, or an
\* HTTPException(404) raised
session_unavailable(cache) ==
  IF Truthy(cache)
    THEN [raised |-> FALSE, status |-> 200, body |-> cache]
    ELSE [raised |-> TRUE, status |-> 404, body |-> [detail |-> "Session info not available"]]

\* `except Exception` of line 311 catches what the try block raises:
\* fastapi's HTTPException is an Exception too
session_try(un, cache) ==
  IF un.raised THEN session_except(cache) ELSE [status |-> un.status, body |-> un.body]

\* mutant of session_result: a successful read is returned but not cached
session_result_no_store(g, rd, cache) ==
  IF g.raised
    THEN [status |-> 500, body |-> Unhandled, read |-> "none", source |-> <<>>,
          failed |-> "startup", cache |-> cache]
  ELSE IF ~g.result
    THEN [status |-> 503, body |-> [detail |-> "Not connected to iRacing"],
          read |-> "none", source |-> <<>>, failed |-> "none", cache |-> cache]
  ELSE IF rd.kind = "ok"
    THEN [status |-> 200, body |-> rd.snapshot, read |-> "ok", source |-> rd.source,
          failed |-> "none", cache |-> cache]
  ELSE [status |-> IF Truthy(cache) THEN 200 ELSE 500,
        body |-> IF Truthy(cache) THEN cache ELSE [detail |-> "Error reading session"],
        read |-> IF rd.kind = "unavailable" THEN "unavailable" ELSE "error",
        source |-> rd.source, failed |-> rd.failed, cache |-> cache]

\* the body of get_session (lines 252-314) on the guard's outcome g and the
\* read's outcome rd
session_result(g, rd, cache) ==
  IF g.raised
    THEN [status |-> 500, body |-> Unhandled, read |-> "none", source |-> <<>>,
          failed |-> "startup", cache |-> cache]
  ELSE IF ~g.result
    THEN [status |-> 503, body |-> [detail |-> "Not connected to iRacing"],
          read |-> "none", source |-> <<>>, failed |-> "none", cache |-> cache]
  ELSE IF rd.kind = "ok"
    THEN [status |-> 200, body |-> rd.snapshot, read |-> "ok", source |-> rd.source,
          failed |-> "none", cache |-> rd.snapshot]
  ELSE IF rd.kind = "unavailable"
    THEN LET out == session_try(session_unavailable(cache), cache)
         IN  [status |-> out.status, body |-> out.body, read |-> "unavailable",
              source |-> rd.source, failed |-> "none", cache |-> cache]
  ELSE LET ex == session_except(cache)
       IN  [status |-> ex.status, body |-> ex.body, read |-> "error",
            source |-> rd.source, failed |-> rd.failed, cache |-> cache]

get_session ==
  \E raiseAt \in RaisePoints(is_initialized, is_connected), failAt \in FailPoints(SessionCalls(absent)) :
    LET g == ensure_connection(is_initialized, is_connected, simUp, raiseAt = 1, raiseAt = 2)
        rd == read_session(info, absent, clock, clock, failAt)
        out == session_result(g, rd, session_cache)
    IN  /\ is_initialized' = g.init
        /\ is_connected' = g.conn
        /\ session_cache' = out.cache
        /\ goodSession' = IF out.read = "ok" THEN out.body ELSE goodSession
        /\ resp' = Response("session", out.status, out.body, GuardOutcome(g), out.read,
                            [GuardCalls(g) EXCEPT !.source = out.source, !.failed = out.failed])
        /\ UNCHANGED <<simUp, absent, info, clock, telemetry_cache,
                       last_telemetry_update, goodTelemetry, frozen, req>>

\* ------------------------------------------------------------ environment
\* the sets of variables the source may report as None
NullMasks == {{}, {"Speed", "IsOnTrack", "TrackLength", "TrackTempCrew", "TrackWetness"}}

Weekend == [TrackDisplayName |-> "Spa", TrackID |-> 163, SessionType |-> "Race"]
Drivers == <<[UserName |-> "Ann", CarScreenName |-> "GT3"],
             [UserName |-> "Bob", CarScreenName |-> "LMP2"]>>
Results == [Sessions |->
             <<[ResultsFastestLap |-> <<[FastestTime |-> 0], [FastestTime |-> 92341]>>],
               [SessionName |-> "QUALIFY"],
               [ResultsFastestLap |-> <<[FastestTime |-> 0], [FastestTime |-> 91876]>>]>>]

\* the session YAML the source may hold
Infos ==
  { [WeekendInfo |-> Weekend, DriverInfo |-> None, SessionInfo |-> None],
    [WeekendInfo |-> Weekend,
     DriverInfo |-> [DriverCarIdx |-> -1, Drivers |-> Drivers],
     SessionInfo |-> Results],
    [WeekendInfo |-> [TrackID |-> 163],
     DriverInfo |-> [DriverCarIdx |-> 2, Drivers |-> Drivers],
     SessionInfo |-> None] }

\* the simulation starts or stops; a stopped simulation is not connected
SimChange ==
  /\ simUp' = ~simUp
  /\ is_connected' = IF simUp' THEN is_connected ELSE FALSE
  /\ UNCHANGED <<is_initialized, absent, info, clock, telemetry_cache, session_cache,
                 last_telemetry_update, resp, goodTelemetry, goodSession, frozen, req>>

\* the simulation moves on: time passes and the source's data changes
Tick ==
  /\ clock < MaxClock
  /\ clock' = clock + 1
  /\ absent' \in NullMasks
  /\ info' \in Infos
  /\ UNCHANGED <<is_initialized, is_connected, simUp, telemetry_cache, session_cache,
                 last_telemetry_update, resp, goodTelemetry, goodSession, frozen, req>>

\* ---------------------------------------------------------- specification
\* the module's globals of lines 66-69, no request served yet
Init ==
  /\ is_initialized = FALSE
  /\ is_connected = FALSE
  /\ simUp \in BOOLEAN
  /\ absent \in NullMasks
  /\ info \in Infos
  /\ clock = 0
  /\ telemetry_cache = EmptyDict
  /\ session_cache = EmptyDict
  /\ last_telemetry_update = 0
  /\ resp = Response("none", 0, EmptyDict, "none", "none", NoCalls)
  /\ goodTelemetry = EmptyDict
  /\ goodSession = EmptyDict
  /\ frozen = None
  /\ req = [w \in Workers |-> NoRequest]

Next ==
  \/ SimChange
  \/ Tick
  \/ root
  \/ get_status
  \/ get_telemetry
  \/ get_session
  \/ disconnect

Spec == Init /\ [][Next]_vars

\* the source reports any set of the telemetry variables as None; the handle
\* is connected, as after one GET /status with the simulation up
InitNull ==
  /\ is_initialized = TRUE
  /\ is_connected = TRUE
  /\ simUp = TRUE
  /\ absent \in SUBSET TelemetryVarSet
  /\ info = [WeekendInfo |-> None, DriverInfo |-> None, SessionInfo |-> None]
  /\ clock = 0
  /\ telemetry_cache = EmptyDict
  /\ session_cache = EmptyDict
  /\ last_telemetry_update = 0
  /\ resp = Response("status", 200, status_result(
                       ensure_connection(TRUE, TRUE, TRUE, FALSE, FALSE), 0).body,
                     "true", "none", NoCalls)
  /\ goodTelemetry = EmptyDict
  /\ goodSession = EmptyDict
  /\ frozen = None
  /\ req = [w \in Workers |-> NoRequest]

NextNull == get_telemetry

SpecNull == InitNull /\ [][NextNull]_vars

\* ------------------------------------------- requests, statement by statement
\* The handlers are plain `def` endpoints, which the server runs on worker
\* threads: between two statements of a request the simulation ticks and
\* another request runs.  ir[key] reads the buffer the last
\* ir.freeze_var_buffer_latest() froze (the handlers never unfreeze it), and
\* the latest buffer before any freeze.
BufferTick(fr, now) == IF fr = None THEN now ELSE fr[1]

\* mutant of assign_cache: the dict is copied into the cache key by key and
\* the copy of a filled cache stops after the timestamp
assign_cache_merge(cache, snapshot) ==
  [k \in DOMAIN snapshot |->
     IF k \in DOMAIN cache /\ k # "timestamp" THEN cache[k] ELSE snapshot[k]]

\* lines 214 and 308: the global name is rebound to the dict just built
assign_cache(cache, snapshot) == snapshot

StepFrame == <<simUp, absent, info, clock, last_telemetry_update, resp>>

\* lines 188-189, 252-253: the guard and the 503
Begin(w) ==
  \E op \in {"telemetry", "session"} :
    LET g == ensure_connection(is_initialized, is_connected, simUp, FALSE, FALSE)
    IN  /\ req[w].pc = "idle"
        /\ is_initialized' = g.init
        /\ is_connected' = g.conn
        /\ req' = [req EXCEPT ![w] =
                     IF g.result
                       THEN [NoRequest EXCEPT !.pc = "try", !.op = op]
                       ELSE [NoRequest EXCEPT !.pc = "done", !.op = op, !.status = 503,
                                              !.out = [detail |-> "Not connected to iRacing"]]]
        /\ UNCHANGED <<StepFrame, telemetry_cache, session_cache, goodTelemetry,
                       goodSession, frozen>>

\* a request that starts while no other is running
BeginAlone(w) ==
  /\ \A v \in Workers : req[v].pc \in {"idle", "done"}
  /\ Begin(w)

\* get_session, lines 256-277: the session YAML, the fastest lap and
\* TrackLength, read before the freeze of line 280
ReadMeta(w) ==
  /\ req[w].op = "session"
  /\ req[w].pc = "try"
  /\ req' = [req EXCEPT ![w] =
               IF ~Truthy(info.WeekendInfo) \/ ~Truthy(info.DriverInfo)
                 THEN LET out == session_try(session_unavailable(session_cache), session_cache)
                      IN  [req[w] EXCEPT !.pc = "done", !.status = out.status,
                                         !.out = out.body]
                 ELSE [req[w] EXCEPT !.pc = "meta", !.meta = info,
                                     !.track_length_m =
                                       TrackLengthM(absent, BufferTick(frozen, clock))]]
  /\ UNCHANGED <<StepFrame, is_initialized, is_connected, telemetry_cache,
                 session_cache, goodTelemetry, goodSession, frozen>>

\* lines 193 and 280: ir.freeze_var_buffer_latest()
Freeze(w) ==
  /\ req[w].pc = IF req[w].op = "telemetry" THEN "try" ELSE "meta"
  /\ frozen' = Some(clock)
  /\ req' = [req EXCEPT ![w].pc = "frozen"]
  /\ UNCHANGED <<StepFrame, is_initialized, is_connected, telemetry_cache,
                 session_cache, goodTelemetry, goodSession>>

\* lines 196-212 and 283-306: the dict built from the buffer, with time.time()
Read(w) ==
  /\ req[w].pc = "frozen"
  /\ req' = [req EXCEPT ![w] =
               IF req[w].op = "telemetry"
                 THEN [req[w] EXCEPT !.pc = "built",
                                     !.local = TelemetrySnapshot(absent,
                                                 BufferTick(frozen, clock), clock)]
               ELSE IF ~DriverOk(req[w].meta.DriverInfo)
                 THEN LET ex == session_except(session_cache)
                      IN  [req[w] EXCEPT !.pc = "done", !.status = ex.status,
                                         !.out = ex.body]
               ELSE [req[w] EXCEPT !.pc = "built",
                                   !.local = SessionData(req[w].meta, req[w].track_length_m,
                                               absent, BufferTick(frozen, clock), clock)]]
  /\ UNCHANGED <<StepFrame, is_initialized, is_connected, telemetry_cache,
                 session_cache, goodTelemetry, goodSession, frozen>>

\* lines 214 and 308
Store(w) ==
  /\ req[w].pc = "built"
  /\ IF req[w].op = "telemetry"
       THEN /\ telemetry_cache' = assign_cache(telemetry_cache, req[w].local)
            /\ goodTelemetry' = req[w].local
            /\ UNCHANGED <<session_cache, goodSession>>
       ELSE /\ session_cache' = assign_cache(session_cache, req[w].local)
            /\ goodSession' = req[w].local
            /\ UNCHANGED <<telemetry_cache, goodTelemetry>>
  /\ req' = [req EXCEPT ![w].pc = "stored"]
  /\ UNCHANGED <<simUp, absent, info, clock, last_telemetry_update, resp,
                 is_initialized, is_connected, frozen>>

\* lines 215-217 and 309: the dict built is the response
Return(w) ==
  /\ req[w].pc = "stored"
  /\ last_telemetry_update' =
       IF req[w].op = "telemetry" THEN clock ELSE last_telemetry_update
  /\ req' = [req EXCEPT ![w] = [req[w] EXCEPT !.pc = "done", !.status = 200,
                                               !.out = req[w].local]]
  /\ UNCHANGED <<simUp, absent, info, clock, resp, is_initialized, is_connected,
                 telemetry_cache, session_cache, goodTelemetry, goodSession, frozen>>

\* the simulation writes its next tick
SimTick ==
  /\ clock < MaxClock
  /\ clock' = clock + 1
  /\ UNCHANGED <<is_initialized, is_connected, simUp, absent, info, telemetry_cache,
                 session_cache, last_telemetry_update, resp, goodTelemetry,
                 goodSession, frozen, req>>

\* process start with the simulation running and its session loaded
InitSteps ==
  /\ is_initialized = FALSE
  /\ is_connected = FALSE
  /\ simUp = TRUE
  /\ absent = {}
  /\ info = [WeekendInfo |-> Weekend,
             DriverInfo |-> [DriverCarIdx |-> -1, Drivers |-> Drivers],
             SessionInfo |-> Results]
  /\ clock = 0
  /\ telemetry_cache = EmptyDict
  /\ session_cache = EmptyDict
  /\ last_telemetry_update = 0
  /\ resp = Response("none", 0, EmptyDict, "none", "none", NoCalls)
  /\ goodTelemetry = EmptyDict
  /\ goodSession = EmptyDict
  /\ frozen = None
  /\ req = [w \in Workers |-> NoRequest]

\* one request at a time, the simulation ticking between its statements
NextTick ==
  \/ SimTick
  \/ \E w \in Workers :
       BeginAlone(w) \/ ReadMeta(w) \/ Freeze(w) \/ Read(w) \/ Store(w) \/ Return(w)

SpecTick == InitSteps /\ [][NextTick]_vars

\* the workers' requests interleaved statement by statement
NextConc ==
  \/ SimTick
  \/ \E w \in Workers :
       Begin(w) \/ ReadMeta(w) \/ Freeze(w) \/ Read(w) \/ Store(w) \/ Return(w)

SpecConc == InitSteps /\ [][NextConc]_vars

\* ------------------------------------------------- fastest-lap inputs
\* FastestTime values: none recorded (-1, 0) and lap times
LapTimes == {-1, 0, 1, 2}
\* one entry of ResultsFastestLap, with or without its FastestTime
LapResults == {[FastestTime |-> t] : t \in LapTimes} \cup {[CarIdx |-> 0]}

RECURSIVE SeqsUpTo(_, _)
SeqsUpTo(S, n) ==
  IF n = 0 THEN {<<>>}
  ELSE LET shorter == SeqsUpTo(S, n - 1)
       IN  shorter \cup {Append(q, x) : q \in {r \in shorter : Len(r) = n - 1}, x \in S}

\* ir["SessionInfo"]: None, a dict without Sessions, no session at all, or
\* up to MaxLaps results split over two sessions around one without results
LapSessionInfos ==
  {None, [ResultsOfficial |-> 0], [Sessions |-> <<>>]} \cup
  { [Sessions |-> <<[ResultsFastestLap |-> SubSeq(laps, 1, cut)],
                    [SessionName |-> "QUALIFY"],
                    [ResultsFastestLap |-> SubSeq(laps, cut + 1, Len(laps))]>>] :
      <<laps, cut>> \in {lc \in SeqsUpTo(LapResults, MaxLaps) \X (0..MaxLaps) : lc[2] <= Len(lc[1])} }

\* a connected handle whose session YAML holds any of these results
InitLap ==
  /\ is_initialized = TRUE
  /\ is_connected = TRUE
  /\ simUp = TRUE
  /\ absent = {}
  /\ info \in {[WeekendInfo |-> Weekend,
                 DriverInfo |-> [DriverCarIdx |-> 0, Drivers |-> Drivers],
                 SessionInfo |-> si] : si \in LapSessionInfos}
  /\ clock = 0
  /\ telemetry_cache = EmptyDict
  /\ session_cache = EmptyDict
  /\ last_telemetry_update = 0
  /\ resp = Response("status", 200, status_result(
                       ensure_connection(TRUE, TRUE, TRUE, FALSE, FALSE), 0).body,
                     "true", "none", NoCalls)
  /\ goodTelemetry = EmptyDict
  /\ goodSession = EmptyDict
  /\ frozen = None
  /\ req = [w \in Workers |-> NoRequest]

\* GET /session with no source call raising
NextLap == get_session /\ resp'.calls.failed = "none"

SpecLap == InitLap /\ [][NextLap]_vars

\* ================================================================ claims
IsTelemetry == resp.op = "telemetry"
IsSession == resp.op = "session"
\* the request passed the connection gate and its live read did not succeed
TelemetryReadFailed == IsTelemetry /\ resp.guard = "true" /\ resp.read = "error"
SessionReadFailed == IsSession /\ resp.guard = "true" /\ resp.read \in {"unavailable", "error"}

\* C1: a GET /telemetry that passes the connection gate and whose live read
\* fails, after an earlier GET /telemetry read succeeded, answers 200 with
\* exactly the most recent successful snapshot, timestamp included.
C1_TelemetryCacheFallback ==
  (TelemetryReadFailed /\ Truthy(goodTelemetry))
    => (resp.status = 200 /\ resp.body = goodTelemetry)

\* a failed read answered with a snapshot taken at an earlier time
C1_Witness ==
  /\ TelemetryReadFailed
  /\ Truthy(goodTelemetry)
  /\ resp.status = 200
  /\ resp.body.timestamp < clock

\* C2 as claimed: once a GET /telemetry (GET /session) read has succeeded,
\* every later request of that kind answers with the cached data, whatever
\* makes it fail, and never with a hard error.
C2_AvailabilityOverError ==
  /\ (IsTelemetry /\ Truthy(goodTelemetry))
       => (resp.status = 200 /\ resp.body = goodTelemetry)
  /\ (IsSession /\ Truthy(goodSession))
       => (resp.status = 200 /\ resp.body = goodSession)

\* C2 as amended: once a read of a kind has succeeded, every later request of
\* that kind for which the connection guard returns true answers 200 with the
\* last successful snapshot of that kind (fresh, or cached when the live read
\* fails or the session metadata is absent); a request stopped at the gate
\* is answered with an error although a cache exists.
C2_AvailabilityPastGate ==
  /\ (IsTelemetry /\ resp.guard = "true" /\ Truthy(goodTelemetry))
       => (resp.status = 200 /\ resp.body = goodTelemetry)
  /\ (IsSession /\ resp.guard = "true" /\ Truthy(goodSession))
       => (resp.status = 200 /\ resp.body = goodSession)
  /\ (resp.op \in {"telemetry", "session"} /\ resp.guard = "false")
       => resp.status = 503

\* absent session metadata answered from the cache
C2_Witness ==
  /\ IsSession
  /\ resp.guard = "true"
  /\ resp.read = "unavailable"
  /\ Truthy(goodSession)
  /\ resp.status = 200

\* C3: a GET /session that passes the gate, finds WeekendInfo or DriverInfo
\* absent and has no cached session answers 404, not the 500 of a read error.
C3_SessionUnavailable404 ==
  (IsSession /\ resp.guard = "true" /\ resp.read = "unavailable" /\ ~Truthy(goodSession))
    => resp.status = 404

\* C4: when the guard returns false, GET /telemetry and GET /session answer
\* 503 and make no freeze and no keyed read on the source, cache or no cache.
C4_DisconnectedGate ==
  (resp.op \in {"telemetry", "session"} /\ resp.guard = "false")
    => (resp.status = 503 /\ resp.calls.source = <<>>)

\* the gate closes on a request although both caches are filled
C4_Witness ==
  /\ IsTelemetry
  /\ resp.guard = "false"
  /\ resp.status = 503
  /\ Truthy(telemetry_cache)
  /\ Truthy(session_cache)

\* C5: GET /status always answers 200: the degraded payload (connected and
\* initialized false, an error message) when the guard raises, else the
\* guard's connected flag and the source's initialized flag.
C5_StatusAlways200 ==
  resp.op = "status" =>
    /\ resp.status = 200
    /\ resp.guard = "raised" =>
         /\ resp.body.connected = FALSE
         /\ resp.body.initialized = FALSE
         /\ "error" \in DOMAIN resp.body
    /\ resp.guard # "raised" =>
         /\ resp.body.connected = (resp.guard = "true")
         /\ resp.body.initialized = is_initialized
         /\ "error" \notin DOMAIN resp.body

\* the guard raised on an initialized handle and /status still answered 200
C5_Witness ==
  /\ resp.op = "status"
  /\ resp.guard = "raised"
  /\ resp.status = 200
  /\ is_initialized

\* C6: a GET /telemetry that passes the gate and whose live read fails when
\* no telemetry read has succeeded yet answers 500 and leaves the cache empty.
C6_TelemetryCacheMiss ==
  (TelemetryReadFailed /\ ~Truthy(goodTelemetry))
    => (resp.status = 500 /\ ~Truthy(telemetry_cache))

\* the freeze returned and a keyed read raised, with nothing cached
C6_Witness ==
  /\ TelemetryReadFailed
  /\ ~Truthy(goodTelemetry)
  /\ resp.status = 500
  /\ Len(resp.calls.source) > 1

\* C7: a GET /session that passes the gate and ends in absent metadata or in
\* a read error answers 200 with exactly the most recent successful session
\* snapshot when there is one; a read error with no cached session answers 500.
C7_SessionCacheFallback ==
  SessionReadFailed =>
    /\ Truthy(goodSession) => (resp.status = 200 /\ resp.body = goodSession)
    /\ (~Truthy(goodSession) /\ resp.read = "error") => resp.status = 500

\* a read error after the freeze answered with an earlier snapshot
C7_Witness ==
  /\ SessionReadFailed
  /\ resp.read = "error"
  /\ Truthy(goodSession)
  /\ resp.status = 200
  /\ resp.body.timestamp < clock

\* C8: ensure_connection never throws: a startup() that raises reaches
\* GET /telemetry and GET /session only as a false return, answered 503.
C8_GuardNeverThrows ==
  resp.op \in {"status", "telemetry", "session"} =>
    /\ resp.guard \in {"true", "false"}
    /\ (resp.op # "status" /\ resp.calls.failed = "startup") => resp.status = 503

\* C9: POST /disconnect requests shutdown exactly once whatever the
\* connection state, and answers 200 with status "disconnected" when shutdown
\* returns, 500 exactly when shutdown raises.
C9_DisconnectOnce ==
  resp.op = "disconnect" =>
    /\ resp.calls.shutdowns = 1
    /\ resp.calls.startups = 0
    /\ resp.calls.failed = "shutdown" => resp.status = 500
    /\ resp.calls.failed # "shutdown" =>
         (resp.status = 200 /\ resp.body = [status |-> "disconnected"])

\* shutdown was requested of a handle that was not initialized, and raised
C9_Witness ==
  /\ resp.op = "disconnect"
  /\ resp.calls.shutdowns = 1
  /\ resp.status = 500
  /\ ~is_initialized

\* C10: whatever set of telemetry variables the source reports as None, a
\* GET /telemetry that passes the gate and in which no source call raises
\* succeeds, and its snapshot holds the default (0, false for isOnTrack) for
\* each absent variable and None for no field.
C10_NullCoalescing ==
  (IsTelemetry /\ resp.guard = "true" /\ resp.calls.failed = "none") =>
    /\ resp.status = 200
    /\ resp.read = "ok"
    /\ \A v \in TelemetryVarSet :
         /\ resp.body[TelemetryKey[v]] # None
         /\ v \in absent => resp.body[TelemetryKey[v]] = Some(TelemetryDefault(v))

\* a snapshot read while the source reports some variables and not others
C10_Witness ==
  /\ IsTelemetry
  /\ resp.read = "ok"
  /\ absent = {"Gear", "IsOnTrack", "TrackLength"}
  /\ resp.body.gear = Some(0)
  /\ resp.body.isOnTrack = Some(FALSE)
  /\ resp.body.trackLength = Some(0)
  /\ resp.body.speed = Some(1)

\* the strictly positive FastestTime values of a SessionInfo
PositiveTimes(si) ==
  IF ~Truthy(si) \/ "Sessions" \notin DOMAIN si THEN {}
  ELSE UNION { LET session == si.Sessions[i]
               IN  IF "ResultsFastestLap" \notin DOMAIN session THEN {}
                   ELSE { session.ResultsFastestLap[j].FastestTime :
                            j \in { k \in 1..Len(session.ResultsFastestLap) :
                                      /\ "FastestTime" \in DOMAIN session.ResultsFastestLap[k]
                                      /\ session.ResultsFastestLap[k].FastestTime > 0 } } :
               i \in 1..Len(si.Sessions) }
MinOrZero(S) == IF S = {} THEN 0 ELSE CHOOSE x \in S : \A y \in S : x <= y

\* C11: for every list of sessions with their fastest-lap results, fastestLap
\* in the session snapshot is the minimum of the strictly positive FastestTime
\* values over all sessions and results, and 0 when there is none.
C11_FastestLap ==
  (IsSession /\ resp.read = "ok")
    => resp.body.fastestLap = MinOrZero(PositiveTimes(info.SessionInfo))

\* the times [0, 2, 0, 1] over two sessions give 1
C11_Witness ==
  /\ IsSession
  /\ resp.read = "ok"
  /\ info.SessionInfo =
       [Sessions |-> <<[ResultsFastestLap |-> <<[FastestTime |-> 0], [FastestTime |-> 2]>>],
                       [SessionName |-> "QUALIFY"],
                       [ResultsFastestLap |-> <<[FastestTime |-> 0], [FastestTime |-> 1]>>]>>]
  /\ resp.body.fastestLap = 1

\* a step of one of the three handlers that call ensure_connection
GuardStep ==
  /\ simUp' = simUp
  /\ clock' = clock
  /\ resp'.op \in {"status", "telemetry", "session"}

\* C12: a call of ensure_connection makes at most two startup() calls and
\* sleeps only after the re-attempt; it makes no startup() call and does not
\* sleep when the source is already initialized and connected, and then
\* returns true; when it returns, it returns the source's connected flag as
\* it is after the re-attempt, which is the simulation's availability
\* whenever startup() was called.
C12_BoundedReconnect ==
  [][GuardStep =>
       /\ resp'.calls.startups <= 2
       /\ resp'.calls.slept => resp'.calls.startups >= 1
       /\ (is_initialized /\ is_connected)
            => (resp'.calls.startups = 0 /\ ~resp'.calls.slept /\ resp'.guard = "true")
       /\ resp'.guard # "raised" => ((resp'.guard = "true") <=> is_connected')
       /\ (resp'.guard # "raised" /\ resp'.calls.startups >= 1)
            => ((resp'.guard = "true") <=> simUp)]_vars

\* initialization, re-attempt and sleep with the simulation down: false
C12_Witness ==
  /\ resp.op \in {"status", "telemetry", "session"}
  /\ resp.calls.startups = 2
  /\ resp.calls.slept
  /\ resp.guard = "false"
  /\ ~is_connected

\* C15: a step changes telemetry_cache only if it is a GET /telemetry whose
\* read succeeded, and the cache is then the snapshot returned; it changes
\* session_cache only if it is a GET /session whose read succeeded, and the
\* cache is then the snapshot returned.  So GET /, GET /status,
\* POST /disconnect, a 503 and a failed read change neither cache, and no
\* endpoint changes the cache of the other kind.
C15_CacheFrame ==
  [][(telemetry_cache' # telemetry_cache
        => (/\ resp'.op = "telemetry" /\ resp'.read = "ok" /\ resp'.status = 200
            /\ telemetry_cache' = resp'.body))
     /\ (session_cache' # session_cache
        => (/\ resp'.op = "session" /\ resp'.read = "ok" /\ resp'.status = 200
            /\ session_cache' = resp'.body))
     /\ ((resp'.op = "telemetry" /\ resp'.read = "ok" /\ resp' # resp)
        => telemetry_cache' = resp'.body)
     /\ ((resp'.op = "session" /\ resp'.read = "ok" /\ resp' # resp)
        => session_cache' = resp'.body)]_vars

\* a snapshot cached before POST /disconnect is served after the reconnect:
\* the request found the handle shut down (one startup(), no re-attempt),
\* connected, and its read failed
C15_Witness ==
  /\ IsTelemetry
  /\ resp.calls.startups = 1
  /\ ~resp.calls.slept
  /\ resp.guard = "true"
  /\ resp.read = "error"
  /\ resp.status = 200
  /\ resp.body = telemetry_cache
  /\ Truthy(session_cache)

\* C16: the first GET /status, GET /telemetry or GET /session after a
\* successful POST /disconnect calls startup(), and with the simulation
\* available the source is connected again and the request passes the gate:
\* GET /status reports connected, the other two attempt the live read.
C16_DisconnectNotSticky ==
  [][(resp.op = "disconnect" /\ resp.status = 200 /\ GuardStep)
       => (/\ resp'.calls.startups >= 1
           /\ (simUp => (/\ is_connected'
                         /\ resp'.guard = "true"
                         /\ resp'.status # 503
                         /\ (resp'.op = "status" => resp'.body.connected)
                         /\ (resp'.op # "status" => resp'.read # "none"))))]_vars

\* C13: every field of a returned snapshot that comes from the buffer is the
\* value of one and the same tick: for GET /session trackLength,
\* trackTemperature, airTemperature and trackCondition.
C13_FreezeBeforeRead ==
  \A w \in Workers :
    (req[w].pc = "done" /\ req[w].status = 200)
      => \E t \in 0..MaxClock :
           req[w].out = IF req[w].op = "telemetry"
                          THEN TelemetrySnapshot(absent, t, req[w].out.timestamp)
                          ELSE SessionSnapshot(info, absent, t, req[w].out.timestamp)

\* the cache of a kind of request
CacheOf(op) == IF op = "telemetry" THEN telemetry_cache ELSE session_cache
\* the requests of a kind that have assigned the cache
Stored(op) == {w \in Workers : req[w].op = op /\ req[w].pc \in {"stored", "done"}
                                             /\ req[w].status \in {0, 200}}
CacheWhole ==
  \A op \in {"telemetry", "session"} :
    Stored(op) # {}
      => /\ Truthy(CacheOf(op))
         /\ \E w \in Stored(op) : CacheOf(op) = req[w].local

\* C14: under every interleaving of the requests' statements, a request that
\* stores leaves exactly its own snapshot in the cache of its kind (the last
\* write wins), and once a request of a kind has stored, the cache of that
\* kind is never empty and is, whole, the snapshot of one of the requests
\* that have stored: the one it returns.
C14_BenignCacheRace ==
  [][/\ \A w \in Workers :
          (req[w].pc = "built" /\ req'[w].pc = "stored")
            => CacheOf(req[w].op)' = req[w].local
     /\ \A w \in Workers :
          req'[w].pc = "done" /\ req'[w].status = 200 => req'[w].out = req'[w].local
     /\ CacheWhole']_vars

\* two GET /telemetry have returned different snapshots; the one built
\* first was stored last and is the one cached
C14_Witness ==
  /\ \A w \in {1, 2} : req[w].op = "telemetry" /\ req[w].pc = "done"
                         /\ req[w].status = 200
  /\ req[1].out.speed # req[2].out.speed
  /\ req[1].out.timestamp < req[2].out.timestamp
  /\ telemetry_cache = req[1].out

====
